---- MODULE Spec2Model ----
(***************************************************************************)
(* Model of Code/simulation.ipynb: the random multiplication model (the    *)
(* three-value and the log-uniform cells) and its extension with spatial   *)
(* diffusion on a periodic L x L lattice.                                  *)
(*                                                                         *)
(* Numbers are exact rationals <<n, d>> (d > 0, lowest terms).  All the    *)
(* quantities the modelled cells compute from the factors 1/2, 1, 2 are    *)
(* dyadic and small, so IEEE double arithmetic is exact on them and the    *)
(* rational operators below compute what numpy computes.  A quotient with  *)
(* a zero denominator is kept as <<1,0>> (inf), <<-1,0>> (-inf) or <<0,0>> *)
(* (nan), which is what numpy's true division emits.                       *)
(*                                                                         *)
(* The binary cell (source lines 160-193) is the three-value cell with     *)
(* two irrational factor values and is not modelled separately.            *)
(***************************************************************************)
EXTENDS Integers, Sequences, FiniteSets, TLC

VARIABLES
    cfg,      \* the parameter block of the executed cell (never assigned afterwards)
    pc,       \* position in the cell
    rng,      \* state of rng = np.random.default_rng(seed); -1 before it is built
    grng,     \* state of numpy's global generator (np.random.*), never seeded by the code
    current,  \* current[s][m]: abundance at site m of species s (non-spatial cells)
    N,        \* N[s][col]: coarse-grained abundance time series
    G,        \* G[s][col]: growth rates N[:, 1:] / N[:, :-1]
    g,        \* the growth-factor batch of the running step
    allxs,    \* allxs[ind][col]: lattice history of the spatial cell
    t,        \* loop variable of the time evolution loop
    i,        \* row cursor of the lattice sweep
    j,        \* column cursor of the lattice sweep
    err,      \* the exception that ended the cell, "none" otherwise
    draws,    \* history: numbers taken from rng so far in this run
    gdraws,   \* history: numbers taken from the global generator so far in this run
    fdraws,   \* history: growth factors drawn so far in this run
    nupd,     \* history: nupd[cell] = updates applied to the cell in this run
    reads,    \* history: the <<ind, col>> subscripts of allxs read by the last cell update
    nread,    \* history: nread[ind] = times ind was read as a neighbour in this sweep
    snap,     \* history: column t-1 of allxs as it was when the sweep of step t began
    run,      \* 1 in the first execution of the cell, 2 in the re-execution
    prev,     \* the output (N or allxs) of the first execution, <<>> during it
    cf        \* the closed-form harness: [old, c, g, new]

vars == <<cfg, pc, rng, grng, current, N, G, g, allxs, t, i, j, err, draws, gdraws,
          fdraws, nupd, reads, nread, snap, run, prev, cf>>

----------------------------------------------------------------------------
(* Bounds of the model *)

MaxDp == 3
MaxTau == 2
MaxS == 2
MaxM == 2
MaxL == 3
MaxSeed == 1
MaxWindow == 3

----------------------------------------------------------------------------
(* Exact arithmetic *)

Abs(n) == IF n < 0 THEN -n ELSE n

RECURSIVE GCD(_, _)
GCD(a, b) == IF b = 0 THEN a ELSE GCD(b, a % b)

Norm(n, d) == LET k == GCD(Abs(n), d) IN <<n \div k, d \div k>>

RInt(k) == <<k, 1>>
Zero == RInt(0)
One == RInt(1)
Half == <<1, 2>>
Two == RInt(2)

RAdd(a, b) ==
    LET l == (a[2] \div GCD(a[2], b[2])) * b[2]
    IN  Norm(a[1] * (l \div a[2]) + b[1] * (l \div b[2]), l)

RMul(a, b) ==
    LET k1 == GCD(Abs(a[1]), b[2])
        k2 == GCD(Abs(b[1]), a[2])
    IN  Norm((a[1] \div k1) * (b[1] \div k2), (a[2] \div k2) * (b[2] \div k1))

RNeg(a) == <<-a[1], a[2]>>
RSub(a, b) == RAdd(a, RNeg(b))
RLeq(a, b) == a[1] * b[2] <= b[1] * a[2]
RLess(a, b) == a[1] * b[2] < b[1] * a[2]
RPos(a) == a[1] > 0 /\ a[2] > 0

Sign(n) == IF n > 0 THEN 1 ELSE IF n < 0 THEN -1 ELSE 0

\* numpy true division: x / 0 is +-inf, 0 / 0 is nan (a RuntimeWarning, no exception)
RDiv(a, b) ==
    IF b[1] = 0 THEN <<Sign(a[1]), 0>>
    ELSE Norm(Sign(b[1]) * a[1] * b[2], Abs(b[1]) * a[2])

RECURSIVE Pow2(_)
Pow2(n) == IF n = 0 THEN 1 ELSE 2 * Pow2(n - 1)

----------------------------------------------------------------------------
(* numpy array helpers *)

RECURSIVE SumSeq(_)
SumSeq(s) == IF s = <<>> THEN Zero ELSE RAdd(Head(s), SumSeq(Tail(s)))

RECURSIVE Prod(_)
Prod(s) == IF s = <<>> THEN One ELSE RMul(Head(s), Prod(Tail(s)))

Reverse(s) == [k \in 1..Len(s) |-> s[Len(s) + 1 - k]]

Cumprod(s) == [k \in 1..Len(s) |-> Prod(SubSeq(s, 1, k))]

----------------------------------------------------------------------------
(* Random number generators.                                               *)
(* A generator is a state that advances by one fixed function per number   *)
(* drawn; the number drawn is read off the state.  The state space is      *)
(* 0..RawMod-1 and the step a full-period congruence: the bit generator    *)
(* behind numpy is far larger, but like this one it is a deterministic     *)
(* function of its seed and of the count of numbers drawn.                 *)

UniformGrid == 16
RawMod == UniformGrid * 9

LcgNext(x) == (13 * x + 7) % RawMod

RECURSIVE Advance(_, _)
Advance(x, n) == IF n = 0 THEN x ELSE Advance(LcgNext(x), n - 1)

\* the n-th number (n >= 0) a generator in state x will draw
RawAt(x, n) == Advance(x, n)

\* np.random.default_rng(seed)
SeedState(seed) == (29 * seed + 9) % RawMod

\* integers(1, 10) / randint(1, 10): low inclusive, high exclusive
IntegersDrawFromZero(raw) == raw % 9
IntegersDraw(raw) == 1 + (raw % 9)

\* the uniform number in [0, 1) behind choice(..., p=...) and uniform(...)
Uniform01(raw) == Norm(raw % UniformGrid, UniformGrid)

Values == <<Half, One, Two>>

\* p_up = p_down * (1 - 2**(-alpha)) / (2**alpha - 1)
P_up(c) ==
    RMul(c.p_down, RDiv(RSub(One, <<1, Pow2(c.alpha)>>), RInt(Pow2(c.alpha) - 1)))

\* p_stay = 1 - p_down - p_up
P_stay(c) == RSub(RSub(One, c.p_down), P_up(c))

Probabilities(c) == <<c.p_down, P_stay(c), P_up(c)>>

\* the validation choice() applies to p before it draws anything
ProbabilitiesAccepted(p) ==
    /\ \A k \in 1..Len(p) : p[k][1] >= 0
    /\ SumSeq(p) = One

\* choice(values, p=p): the index is cdf.searchsorted(u, side='right')
Choice(raw, p) ==
    LET u == Uniform01(raw)
        cdf == [k \in 1..Len(p) |-> SumSeq(SubSeq(p, 1, k))]
        idx == Cardinality({k \in 1..Len(p) : RLeq(cdf[k], u)})
    IN  Values[idx + 1]

\* log_uniform(low, high, size) = exp(uniform(log(low), log(high), size)), with
\* [low, high] = [0.356.., 2.298..] for alpha = 0.7, e = -0.1.  The draw is
\* monotone in the uniform number; it is kept on the three representable points
\* 1/2, 1, 2 of that interval.
LogUniform(raw) ==
    LET u == Uniform01(raw)
    IN  IF RLess(u, <<3, 8>>) THEN Half ELSE IF RLess(u, <<3, 4>>) THEN One ELSE Two

----------------------------------------------------------------------------
(* Parameter blocks *)

Forcings == {-1, 0, 1}
PDowns == {Zero, <<1, 4>>, <<3, 4>>, <<-1, 4>>}
Alphas == {1, 2}
Diffusions == {Zero, <<1, 8>>, <<1, 4>>, <<1, 2>>}
GlobalStates == {0, 5}

NonSpatial == {"three", "loguniform"}

ThreeCfgs ==
    { [variant |-> "three", dp |-> a, tau |-> b, S |-> s, M |-> m, L |-> 1,
       c |-> c, d |-> Zero, p_down |-> p, alpha |-> al, seed |-> sd] :
      a \in 0..MaxDp, b \in 1..MaxTau, s \in 1..MaxS, m \in 1..MaxM,
      c \in Forcings, p \in PDowns, al \in Alphas, sd \in 0..MaxSeed }

LogUniformCfgs ==
    { [variant |-> "loguniform", dp |-> a, tau |-> b, S |-> s, M |-> m, L |-> 1,
       c |-> c, d |-> Zero, p_down |-> <<1, 4>>, alpha |-> 1, seed |-> sd] :
      a \in 0..MaxDp, b \in 1..MaxTau, s \in 1..MaxS, m \in 1..MaxM,
      c \in Forcings, sd \in 0..MaxSeed }

SpatialCfgs ==
    { [variant |-> "spatial", dp |-> a, tau |-> 1, S |-> 1, M |-> 1, L |-> l,
       c |-> c, d |-> d, p_down |-> p, alpha |-> 1, seed |-> sd] :
      a \in 0..MaxDp, l \in 1..MaxL, c \in Forcings, d \in Diffusions,
      p \in PDowns, sd \in 0..MaxSeed }

Cells(c) ==
    IF c.variant = "spatial" THEN 0..(c.L * c.L - 1)
    ELSE (1..c.S) \X (1..c.M)

NoCf == [old |-> Zero, c |-> 0, g |-> <<>>, new |-> Zero]

Fresh ==
    /\ pc = "start"
    /\ rng = -1
    /\ current = <<>>
    /\ N = <<>>
    /\ G = <<>>
    /\ g = <<>>
    /\ allxs = <<>>
    /\ t = 0
    /\ i = 0
    /\ j = 0
    /\ err = "none"
    /\ draws = 0
    /\ gdraws = 0
    /\ fdraws = 0
    /\ nupd = [x \in Cells(cfg) |-> 0]
    /\ reads = <<>>
    /\ nread = <<>>
    /\ snap = <<>>

Init ==
    /\ cfg \in ThreeCfgs \cup LogUniformCfgs \cup SpatialCfgs
    /\ grng \in (IF cfg.variant = "three" THEN {0} ELSE GlobalStates)
    /\ Fresh
    /\ run = 1
    /\ prev = <<>>
    /\ cf = NoCf

----------------------------------------------------------------------------
(* The non-spatial cells (three-value: lines 48-79, log-uniform: 107-138) *)

\* rng = np.random.default_rng(seed=seed)
SetSeed ==
    /\ pc = "start"
    /\ rng' = SeedState(cfg.seed)
    /\ pc' = "seeded"
    /\ UNCHANGED <<cfg, grng, current, N, G, g, allxs, t, i, j, err, draws, gdraws,
                   fdraws, nupd, reads, nread, snap, run, prev, cf>>

\* current = rng.integers(1, 10, size=(S, M))
InitCurrent ==
    /\ pc = "seeded"
    /\ cfg.variant \in NonSpatial
    /\ current' = [s \in 1..cfg.S |-> [m \in 1..cfg.M |->
                      RInt(IntegersDraw(RawAt(rng, (s - 1) * cfg.M + (m - 1))))]]
    /\ rng' = Advance(rng, cfg.S * cfg.M)
    /\ draws' = draws + cfg.S * cfg.M
    /\ pc' = "inited"
    /\ UNCHANGED <<cfg, grng, N, G, g, allxs, t, i, j, err, gdraws, fdraws, nupd,
                   reads, nread, snap, run, prev, cf>>

\* np.sum(current, axis=1)
SumSites(cur) == [s \in DOMAIN cur |-> SumSeq(cur[s])]

\* N[:, col] = np.sum(current, axis=1)
NWritePrevious(n, col, cur) ==
    [s \in DOMAIN n |-> [k \in DOMAIN n[s] |->
        IF k = col - 1 THEN SumSites(cur)[s] ELSE n[s][k]]]
NWrite(n, col, cur) ==
    [s \in DOMAIN n |-> [k \in DOMAIN n[s] |->
        IF k = col THEN SumSites(cur)[s] ELSE n[s][k]]]

\* N = np.zeros((S, dp)); N[:, 0] = np.sum(current, axis=1)
InitN ==
    /\ pc = "inited"
    /\ IF cfg.dp = 0
       THEN \* index 0 is out of bounds for axis 1 with size 0
            /\ N' = [s \in 1..cfg.S |-> <<>>]
            /\ err' = "IndexError"
            /\ pc' = "error"
            /\ t' = t
       ELSE /\ N' = NWrite([s \in 1..cfg.S |-> [k \in 0..(cfg.dp - 1) |-> Zero]],
                           0, current)
            /\ err' = err
            /\ pc' = "loop"
            /\ t' = 1
    /\ UNCHANGED <<cfg, rng, grng, current, G, g, allxs, i, j, draws, gdraws, fdraws,
                   nupd, reads, nread, snap, run, prev, cf>>

\* range(1, dp): the first value of t the loop does not take
LoopEndShort(dp) == dp - 1
LoopEnd(dp) == dp

\* current * np.prod(g) + c * np.sum(np.cumprod(g[1:][::-1])) + c   (one cell)
MacroUpdateNoReverse(old, gs, c) ==
    RAdd(RAdd(RMul(old, Prod(gs)), RMul(RInt(c), SumSeq(Cumprod(Tail(gs))))), RInt(c))
MacroUpdate(old, gs, c) ==
    RAdd(RAdd(RMul(old, Prod(gs)),
              RMul(RInt(c), SumSeq(Cumprod(Reverse(Tail(gs)))))),
         RInt(c))

\* position of g[s, m, k] in the C-ordered batch of shape (S, M, tau)
Offset(s, m, k) == ((s - 1) * cfg.M + (m - 1)) * cfg.tau + (k - 1)

BatchSize == cfg.S * cfg.M * cfg.tau

\* g = rng.choice(values, size=(S, M, tau), p=probabilities)
ChoiceBatch ==
    [s \in 1..cfg.S |-> [m \in 1..cfg.M |-> [k \in 1..cfg.tau |->
        Choice(RawAt(rng, Offset(s, m, k)), Probabilities(cfg))]]]

\* g = log_uniform(low, high, size=(S, M, tau)): drawn from np.random, not from rng
LogUniformBatch ==
    [s \in 1..cfg.S |-> [m \in 1..cfg.M |-> [k \in 1..cfg.tau |->
        LogUniform(RawAt(grng, Offset(s, m, k)))]]]

\* one pass of the time evolution loop
Step ==
    /\ pc = "loop"
    /\ cfg.variant \in NonSpatial
    /\ t < LoopEnd(cfg.dp)
    /\ IF cfg.variant = "three" /\ ~ProbabilitiesAccepted(Probabilities(cfg))
       THEN \* choice raises ValueError before it draws
            /\ err' = "ValueError"
            /\ pc' = "error"
            /\ UNCHANGED <<rng, grng, current, N, g, t, draws, gdraws, fdraws, nupd>>
       ELSE /\ g' = IF cfg.variant = "three" THEN ChoiceBatch ELSE LogUniformBatch
            /\ IF cfg.variant = "three"
               THEN /\ rng' = Advance(rng, BatchSize)
                    /\ draws' = draws + BatchSize
                    /\ UNCHANGED <<grng, gdraws>>
               ELSE /\ grng' = Advance(grng, BatchSize)
                    /\ gdraws' = gdraws + BatchSize
                    /\ UNCHANGED <<rng, draws>>
            /\ fdraws' = fdraws + BatchSize
            /\ current' = [s \in 1..cfg.S |-> [m \in 1..cfg.M |->
                              MacroUpdate(current[s][m], g'[s][m], cfg.c)]]
            /\ N' = NWrite(N, t, current')
            /\ nupd' = [x \in DOMAIN nupd |-> nupd[x] + 1]
            /\ t' = t + 1
            /\ UNCHANGED <<pc, err>>
    /\ UNCHANGED <<cfg, G, allxs, i, j, reads, nread, snap, run, prev, cf>>

\* G = N[:, 1:] / N[:, :-1]
GrowthRates(n) ==
    [s \in DOMAIN n |-> [k \in 0..(cfg.dp - 2) |-> RDiv(n[s][k + 1], n[s][k])]]

ComputeG ==
    /\ pc = "loop"
    /\ cfg.variant \in NonSpatial
    /\ t >= LoopEnd(cfg.dp)
    /\ G' = GrowthRates(N)
    /\ pc' = "done"
    /\ UNCHANGED <<cfg, rng, grng, current, N, g, allxs, t, i, j, err, draws, gdraws,
                   fdraws, nupd, reads, nread, snap, run, prev, cf>>

----------------------------------------------------------------------------
(* The spatial diffusion cell (lines 209-243) *)

LatticeCells == 0..(cfg.L * cfg.L - 1)

\* Python's a % L for L > 0: the result lies in 0..L-1, also for a = -1
WrapClamp(a, l) == IF a < 0 THEN 0 ELSE IF a >= l THEN l - 1 ELSE a
Wrap(a, l) == a % l

\* the column the update of step col reads: allxs[.., t - 1]
PrevColInPlace(col) == col
PrevCol(col) == col - 1

\* ((1 - 4*d) * x + d * (xa + xb + xc + xd)) * g[ind] + c
CellValueLooseParen(x, xa, xb, xc, xd, gi, d, c) ==
    RAdd(RMul(RAdd(RAdd(RAdd(RAdd(RMul(RSub(One, RMul(RInt(4), d)), x),
                                  RMul(d, xa)), xb), xc), xd), gi), RInt(c))
CellValue(x, xa, xb, xc, xd, gi, d, c) ==
    RAdd(RMul(RAdd(RMul(RSub(One, RMul(RInt(4), d)), x),
                   RMul(d, RAdd(RAdd(RAdd(xa, xb), xc), xd))),
              gi),
         RInt(c))

\* allxs = np.zeros((L * L, dp)); allxs[:, 0] = np.random.randint(1, 10, size=L*L)
\* (the right-hand side is drawn from np.random before the assignment is tried)
InitLattice ==
    /\ pc = "seeded"
    /\ cfg.variant = "spatial"
    /\ grng' = Advance(grng, cfg.L * cfg.L)
    /\ gdraws' = gdraws + cfg.L * cfg.L
    /\ IF cfg.dp = 0
       THEN /\ allxs' = [ind \in LatticeCells |-> <<>>]
            /\ err' = "IndexError"
            /\ pc' = "error"
            /\ t' = t
       ELSE /\ allxs' = [ind \in LatticeCells |-> [col \in 0..(cfg.dp - 1) |->
                            IF col = 0 THEN RInt(IntegersDraw(RawAt(grng, ind)))
                            ELSE Zero]]
            /\ err' = err
            /\ pc' = "loop"
            /\ t' = 1
    /\ UNCHANGED <<cfg, rng, current, N, G, g, i, j, draws, fdraws, nupd, reads,
                   nread, snap, run, prev, cf>>

\* for t in range(1, dp): g = rng.choice(values, size=L * L, p=probabilities)
DrawG ==
    /\ pc = "loop"
    /\ cfg.variant = "spatial"
    /\ t < LoopEnd(cfg.dp)
    /\ IF ~ProbabilitiesAccepted(Probabilities(cfg))
       THEN /\ err' = "ValueError"
            /\ pc' = "error"
            /\ UNCHANGED <<rng, g, i, j, draws, fdraws, reads, nread, snap>>
       ELSE /\ g' = [ind \in LatticeCells |-> Choice(RawAt(rng, ind), Probabilities(cfg))]
            /\ rng' = Advance(rng, cfg.L * cfg.L)
            /\ draws' = draws + cfg.L * cfg.L
            /\ fdraws' = fdraws + cfg.L * cfg.L
            /\ i' = 0
            /\ j' = 0
            /\ pc' = "sweep"
            /\ reads' = <<>>
            /\ nread' = [a \in LatticeCells |-> [b \in LatticeCells |-> 0]]
            /\ snap' = [ind \in LatticeCells |-> allxs[ind][t - 1]]
            /\ err' = err
    /\ UNCHANGED <<cfg, grng, current, N, G, allxs, t, gdraws, nupd, run, prev, cf>>

\* the body of the loops over i and j, and the advance of the cursors
CellUpdate ==
    /\ pc = "sweep"
    /\ LET l == cfg.L
           ai == Wrap(i - 1, l)
           bj == Wrap(j + 1, l)
           ci == Wrap(i + 1, l)
           dj == Wrap(j - 1, l)
           ind == i * l + j
           ind_a == ai * l + j
           ind_b == i * l + bj
           ind_c == ci * l + j
           ind_d == i * l + dj
           col == PrevCol(t)
           nb == <<ind_a, ind_b, ind_c, ind_d>>
       IN  /\ allxs' = [allxs EXCEPT ![ind][t] =
                           CellValue(allxs[ind][col], allxs[ind_a][col], allxs[ind_b][col],
                                     allxs[ind_c][col], allxs[ind_d][col], g[ind],
                                     cfg.d, cfg.c)]
           /\ reads' = [cell |-> <<i, j>>, col |-> col,
                        idx |-> <<ind, ind_a, ind_b, ind_c, ind_d>>]
           /\ nread' = [nread EXCEPT ![ind] = [b \in LatticeCells |->
                           nread[ind][b] + Cardinality({k \in 1..4 : nb[k] = b})]]
           /\ nupd' = [nupd EXCEPT ![ind] = @ + 1]
    /\ IF j + 1 < cfg.L
       THEN j' = j + 1 /\ UNCHANGED <<i, t, pc>>
       ELSE IF i + 1 < cfg.L
            THEN i' = i + 1 /\ j' = 0 /\ UNCHANGED <<t, pc>>
            ELSE t' = t + 1 /\ pc' = "loop" /\ UNCHANGED <<i, j>>
    /\ UNCHANGED <<cfg, rng, grng, current, N, G, g, err, draws, gdraws, fdraws, snap,
                   run, prev, cf>>

\* range(1, dp) is exhausted: the cell ends
Finish ==
    /\ pc = "loop"
    /\ cfg.variant = "spatial"
    /\ t >= LoopEnd(cfg.dp)
    /\ pc' = "done"
    /\ UNCHANGED <<cfg, rng, grng, current, N, G, g, allxs, t, i, j, err, draws, gdraws,
                   fdraws, nupd, reads, nread, snap, run, prev, cf>>

----------------------------------------------------------------------------
(* Executing the same cell again with the same parameter block.  rng is    *)
(* rebuilt from the seed by the cell; the global generator is not touched  *)
(* by the cell: it continues where it stood (same kernel) or starts from   *)
(* fresh entropy (new kernel).                                             *)

Output == IF cfg.variant = "spatial" THEN allxs ELSE N

Rerun ==
    /\ pc = "done"
    /\ run = 1
    /\ run' = 2
    /\ prev' = Output
    /\ grng' \in (IF cfg.variant = "three" THEN {grng} ELSE GlobalStates \cup {grng})
    /\ pc' = "start"
    /\ rng' = -1
    /\ current' = <<>>
    /\ N' = <<>>
    /\ G' = <<>>
    /\ g' = <<>>
    /\ allxs' = <<>>
    /\ t' = 0
    /\ i' = 0
    /\ j' = 0
    /\ draws' = 0
    /\ gdraws' = 0
    /\ fdraws' = 0
    /\ nupd' = [x \in Cells(cfg) |-> 0]
    /\ reads' = <<>>
    /\ nread' = <<>>
    /\ snap' = <<>>
    /\ UNCHANGED <<cfg, err, cf>>

Next ==
    \/ SetSeed
    \/ InitCurrent
    \/ InitN
    \/ Step
    \/ ComputeG
    \/ InitLattice
    \/ DrawG
    \/ CellUpdate
    \/ Finish
    \/ Rerun

Spec == Init /\ [][Next]_vars

----------------------------------------------------------------------------
(* The macro-step update as a function of its inputs: one cell, one window *)

OldValues == {RInt(k) : k \in 0..9} \cup {Half, <<7, 4>>, <<-3, 4>>}

Windows == UNION {[1..n -> {Half, One, Two}] : n \in 1..MaxWindow}

InitClosed ==
    /\ cfg \in {x \in ThreeCfgs : x.dp = 1 /\ x.tau = 1 /\ x.S = 1 /\ x.M = 1 /\ x.c = 1
                                  /\ x.p_down = <<1, 4>> /\ x.alpha = 1 /\ x.seed = 0}
    /\ grng = 0
    /\ Fresh
    /\ run = 1
    /\ prev = <<>>
    /\ cf \in {[old |-> o, c |-> c, g |-> w, new |-> Zero] :
                  o \in OldValues, c \in Forcings, w \in Windows}

ApplyMacro ==
    /\ pc = "start"
    /\ cf' = [cf EXCEPT !.new = MacroUpdate(cf.old, cf.g, cf.c)]
    /\ pc' = "applied"
    /\ UNCHANGED <<cfg, rng, grng, current, N, G, g, allxs, t, i, j, err, draws, gdraws,
                   fdraws, nupd, reads, nread, snap, run, prev>>

NextClosed == ApplyMacro

SpecClosed == InitClosed /\ [][NextClosed]_vars

----------------------------------------------------------------------------
(* Properties *)

RECURSIVE Recurrence(_, _, _)
\* x := g_k * x + c for k = 1..tau in order
Recurrence(x, gs, c) ==
    IF gs = <<>> THEN x
    ELSE Recurrence(RAdd(RMul(Head(gs), x), RInt(c)), Tail(gs), c)

\* C1: the one-shot macro-step update equals the sub-step recurrence
\* x := g_k * x + c applied for k = 1..tau from x = old, for every window,
\* forcing constant and old value; at tau = 1 it is exactly old * g_1 + c.
ClosedFormIsRecurrence ==
    pc = "applied" =>
        /\ cf.new = Recurrence(cf.old, cf.g, cf.c)
        /\ Len(cf.g) = 1 => cf.new = RAdd(RMul(cf.old, cf.g[1]), RInt(cf.c))

ClosedFormWitness ==
    /\ pc = "applied"
    /\ Len(cf.g) = 3
    /\ cf.g = <<Two, Half, Two>>
    /\ cf.c = 1
    /\ cf.old = RInt(3)
    /\ cf.new = RInt(10)

\* the step whose sweep is running, or was the last to complete
SweepStep == IF pc = "sweep" THEN t ELSE t - 1

\* the cells the running sweep has written (all of them once it is complete)
WrittenCells ==
    IF pc = "sweep" THEN {ind \in LatticeCells : ind < i * cfg.L + j} ELSE LatticeCells

InSweep == cfg.variant = "spatial" /\ pc \in {"sweep", "loop", "done"} /\ snap # <<>>

\* the periodic neighbours, stated without the remainder operator
TorusBefore(r) == IF r = 0 THEN cfg.L - 1 ELSE r - 1
TorusAfter(r) == IF r = cfg.L - 1 THEN 0 ELSE r + 1

\* the value a synchronous update gives cell ind from the frozen column old
SyncValue(old, ind) ==
    LET r == ind \div cfg.L
        q == ind % cfg.L
    IN  CellValue(old[ind], old[TorusBefore(r) * cfg.L + q], old[r * cfg.L + TorusAfter(q)],
                  old[TorusAfter(r) * cfg.L + q], old[r * cfg.L + TorusBefore(q)],
                  g[ind], cfg.d, cfg.c)

\* C2: in the sweep of step t every value read is a step t-1 value, the step
\* t-1 column is not modified during the sweep, and every value written is the
\* synchronous update of the column as it stood when the sweep began.
SweepReadsOnlyPreviousStep ==
    InSweep =>
        /\ \A ind \in LatticeCells : allxs[ind][SweepStep - 1] = snap[ind]
        /\ reads # <<>> => reads.col = SweepStep - 1
        /\ \A ind \in WrittenCells : allxs[ind][SweepStep] = SyncValue(snap, ind)

SweepWitness ==
    /\ InSweep
    /\ pc = "sweep"
    /\ cfg.L = 2
    /\ cfg.d = <<1, 8>>
    /\ t = 2
    /\ i = 1
    /\ j = 1
    /\ \E a, b \in LatticeCells : allxs[a][1] # allxs[b][1]
    /\ allxs[0][2] # allxs[0][1]

\* the parameter blocks the validation has to refuse
Invalid(c) ==
    \/ c.variant \in {"three", "spatial"} /\ (P_stay(c)[1] < 0 \/ P_up(c)[1] < 0)
    \/ c.variant = "spatial" /\ RLeq(One, RMul(RInt(4), c.d))
    \/ c.dp <= 0

\* C3: two runs from the same (valid) parameter block and seed draw only from
\* the seeded generator and produce the same output.
Determinism ==
    (run = 2 /\ pc = "done" /\ ~Invalid(cfg)) =>
        /\ Output = prev
        /\ gdraws = 0

\* the columns of N written so far
WrittenColumns == IF N = <<>> THEN {} ELSE {col \in DOMAIN N[1] : col < t}

\* C4: G[s][k] = N[s][k+1] / N[s][k] for every valid k, and the computation
\* ends in DivisionByZero when a denominator is <= 0.
GrowthRatesOrDivisionByZero ==
    (cfg.variant \in NonSpatial /\ pc = "done") =>
        /\ \A s \in 1..cfg.S : \A k \in 0..(cfg.dp - 2) :
              RPos(N[s][k]) => RMul(G[s][k], N[s][k]) = N[s][k + 1]
        /\ (\E s \in 1..cfg.S : \E k \in 0..(cfg.dp - 2) : ~RPos(N[s][k]))
              => err = "DivisionByZero"

\* C5: with c > 0 every abundance and every written entry of N is strictly
\* positive, and no growth rate has a denominator <= 0.
Positivity ==
    (cfg.variant \in NonSpatial /\ cfg.c > 0) =>
        /\ current # <<>> =>
              \A s \in 1..cfg.S : \A m \in 1..cfg.M : RPos(current[s][m])
        /\ \A s \in DOMAIN N : \A col \in WrittenColumns : RPos(N[s][col])
        /\ pc = "done" =>
              \A s \in 1..cfg.S : \A k \in 0..(cfg.dp - 2) :
                  RPos(N[s][k]) /\ RPos(G[s][k])

PositivityWitness ==
    /\ cfg.variant = "three"
    /\ cfg.c = 1
    /\ cfg.dp = 3
    /\ cfg.tau = 2
    /\ pc = "done"
    /\ \E s \in 1..cfg.S : RLess(G[s][1], One)

\* C6: an invalid parameter block ends the run in InvalidParameter before any
\* number is drawn and before any abundance or lattice state is written.
FailFast ==
    Invalid(cfg) =>
        /\ draws = 0
        /\ gdraws = 0
        /\ current = <<>>
        /\ N = <<>>
        /\ allxs = <<>>
        /\ pc # "done"
        /\ pc = "error" => err = "InvalidParameter"

RECURSIVE SiteTotal(_, _)
SiteTotal(row, m) == IF m = 0 THEN Zero ELSE RAdd(SiteTotal(row, m - 1), row[m])

\* C7: step t writes column t of N, and only that column, with the sum over
\* the sites of the abundances after the step's update (column 0: of the
\* initial abundances); written entries never change afterwards.
AppendOnly ==
    [][cfg.variant \in NonSpatial =>
         /\ (pc = "inited" /\ pc' = "loop") =>
               \A s \in 1..cfg.S : N'[s][0] = SiteTotal(current[s], cfg.M)
         /\ (pc = "loop" /\ t' = t + 1) =>
               \A s \in 1..cfg.S : \A col \in 0..(cfg.dp - 1) :
                   N'[s][col] = IF col = t THEN SiteTotal(current'[s], cfg.M)
                                ELSE N[s][col]
         /\ (N # <<>> /\ t' = t /\ pc' # "start") => N' = N]_vars

AppendOnlyWitness ==
    /\ cfg.variant \in NonSpatial
    /\ cfg.M = 2
    /\ pc = "loop"
    /\ t = 3
    /\ N[1][0] # N[1][1]
    /\ N[1][1] # N[1][2]

\* C8: with d = 0 every written value is old * g + c for the cell's own factor,
\* whatever the neighbours hold; with g = 1 and c = 1 it is old + 1.
NoDiffusionIsLocal ==
    (InSweep /\ cfg.d = Zero) =>
        \A ind \in WrittenCells :
            /\ allxs[ind][SweepStep] =
                  RAdd(RMul(allxs[ind][SweepStep - 1], g[ind]), RInt(cfg.c))
            /\ (g[ind] = One /\ cfg.c = 1) =>
                  allxs[ind][SweepStep] = RAdd(allxs[ind][SweepStep - 1], One)

NoDiffusionWitness ==
    /\ InSweep
    /\ cfg.d = Zero
    /\ cfg.L = 3
    /\ cfg.dp = 3
    /\ cfg.c = 1
    /\ pc = "done"
    /\ \A ind \in LatticeCells : g[ind] = One
    /\ \E a, b \in LatticeCells : allxs[a][0] # allxs[b][0]
    /\ \A ind \in LatticeCells : allxs[ind][2] = RAdd(allxs[ind][0], Two)

\* growth factors one cell consumes per macro step
PerStep == IF cfg.variant = "spatial" THEN 1 ELSE cfg.tau

\* C9 as stated: a finished run (of a valid parameter block) has applied the
\* update dp times to every cell, consuming dp * tau factors per cell
StepBudgetDp ==
    (pc = "done" /\ ~Invalid(cfg)) =>
        /\ \A x \in Cells(cfg) : nupd[x] = cfg.dp
        /\ fdraws = cfg.dp * PerStep * Cardinality(Cells(cfg))

\* C9 amended: a finished run has applied the update dp - 1 times to every
\* cell, consuming (dp - 1) * tau factors per cell (one per sweep and cell in
\* the spatial cell); steps run in the order t = 1, 2, ..., and a step starts
\* only when every cell carries the previous step's update.
StepBudget ==
    /\ pc = "done" =>
          /\ \A x \in Cells(cfg) : nupd[x] = cfg.dp - 1
          /\ fdraws = (cfg.dp - 1) * PerStep * Cardinality(Cells(cfg))
    /\ pc = "loop" =>
          /\ t \in 1..cfg.dp
          /\ \A x \in Cells(cfg) : nupd[x] = t - 1
          /\ fdraws = (t - 1) * PerStep * Cardinality(Cells(cfg))
    /\ pc = "sweep" =>
          /\ t \in 1..(cfg.dp - 1)
          /\ \A x \in Cells(cfg) : nupd[x] = IF x \in WrittenCells THEN t ELSE t - 1

StepBudgetWitness ==
    /\ pc = "done"
    /\ cfg.dp = 3
    /\ cfg.variant = "spatial"
    /\ cfg.L = 2
    /\ \A x \in Cells(cfg) : nupd[x] = 2

RECURSIVE ReadsOf(_, _)
\* times cell b was read as a neighbour by the cells 0..a
ReadsOf(b, a) == IF a < 0 THEN 0 ELSE nread[a][b] + ReadsOf(b, a - 1)

\* C10: the neighbours a cell update reads are the four periodic neighbours,
\* every flattened index lies in 0..L*L-1, and over a complete sweep the
\* neighbour relation is symmetric and every cell is read four times.
ToroidalNeighbourhood ==
    cfg.variant = "spatial" =>
        /\ reads # <<>> =>
              LET r == reads.cell[1]
                  q == reads.cell[2]
              IN  /\ reads.idx = <<r * cfg.L + q,
                                   TorusBefore(r) * cfg.L + q, r * cfg.L + TorusAfter(q),
                                   TorusAfter(r) * cfg.L + q, r * cfg.L + TorusBefore(q)>>
                  /\ \A k \in 1..5 : reads.idx[k] \in LatticeCells
        /\ (InSweep /\ pc # "sweep") =>
              /\ \A a, b \in LatticeCells : nread[a][b] = nread[b][a]
              /\ \A b \in LatticeCells : ReadsOf(b, cfg.L * cfg.L - 1) = 4

ToroidalWitness ==
    /\ InSweep
    /\ pc = "loop"
    /\ cfg.L = 2
    /\ nread[0][1] = 2
    /\ nread[0][2] = 2
    /\ nread[0][3] = 0


====
